---- MODULE Spec2Model ----
(***************************************************************************)
(* Audit-result cache, multi-run averaging, page-state detection and the   *)
(* combined-audit orchestrator of the Playwright / Axe / Lighthouse        *)
(* harness.                                                                *)
(*                                                                         *)
(* Representation.                                                         *)
(*  - A JavaScript string that the code concatenates (URL, state label,    *)
(*    cache key) is a sequence of one-character strings.                   *)
(*  - A JavaScript object is a record; null and undefined are the records  *)
(*    Null and Undefined.                                                  *)
(*  - A JavaScript number is an integer counting 1/Unit-ths (Unit = 200),  *)
(*    the common grid of the dyadic inputs k/8 and of the 0.01 output grid *)
(*    of the averaging; on that grid the floating-point operations of the  *)
(*    code are exact or far from a rounding tie.                           *)
(*  - A Map is a function whose DOMAIN is the set of keys present.         *)
(***************************************************************************)
EXTENDS Integers, Sequences, FiniteSets, TLC

VARIABLES
    cache,           \* AuditCache.cache : key -> stored results
    lighthouseRuns,  \* AuditCache.lighthouseRuns : key -> sequence of runs
    testResults,     \* TestState.testResults
    env,             \* process.env (ENABLE_AXE, ENABLE_LIGHTHOUSE)
    config,          \* the config argument the tests give runCombinedAudit
    page,            \* the Playwright page: url, items, completed items,
                     \* and what the page shows
    calls,           \* runCombinedAudit invocations: locals and position
    nextCall,        \* number of runCombinedAudit invocations started
    clock,           \* number of engine invocations so far (timestamps)
    epoch,           \* number of resetTestResults() calls so far
    axeInvoked,      \* per (url,state): accessibility engine invocations since clear
    axeStored,       \* per (url,state): auditCache.set calls since clear
    reports,         \* consolidated-report.js: executionTimestamp, the files
                     \* in reports/consolidated, and the generations so far
    pairP, pairQ,    \* cache harness: the two (url,state) pairs under test
    ops,             \* cache harness: number of operations applied
    written,         \* cache harness: per pair, the values given to set and
                     \* to addLighthouseRun since the last clear, in call order
    runsIn, avgOut,  \* averaging harness: input list, output
    dom, cls,        \* page-state harness: the DOM, the classifier's run
    mv               \* moveFile harness: the file system and the call's run

vars == <<cache, lighthouseRuns, testResults, env, config, page, calls,
          nextCall, clock, epoch, axeInvoked, axeStored, reports,
          pairP, pairQ, ops, written,
          runsIn, avgOut, dom, cls, mv>>

-----------------------------------------------------------------------------
(* Bounds *)

MaxCalls == 3        \* runCombinedAudit invocations per behaviour
MaxResets == 1       \* resetTestResults invocations per behaviour
MaxEngineRuns == 5   \* engine invocations (both engines) per behaviour
MaxOps == 3          \* cache operations per behaviour of the cache harness
MaxRuns == 3         \* length of the run lists given to the averaging
MaxItems == 3        \* todo items on the page of the page-state harness
MaxEdits == 2        \* page changes per behaviour of the page-state harness
MaxReports == 2      \* generateConsolidatedReport invocations per behaviour
MaxOverlap == 2      \* runCombinedAudit invocations that may overlap

-----------------------------------------------------------------------------
(* JavaScript values *)

Null == [type |-> "null"]
Undefined == [type |-> "undefined"]

\* a number with a fraction counts 1/Unit-ths; lengths and counts are plain
Unit == 200

Num(n) == [type |-> "number", n |-> n]
Str(x) == [type |-> "string", s |-> x]
Arr(items) == [type |-> "array", items |-> items]

\* typeof v === "number"
IsNumber(v) == v.type = "number"

\* Math.round on a non-negative number: nearest integer, ties upwards.
MathRound(x) == Unit * ((x + (Unit \div 2)) \div Unit)

Max(a, b) == IF a >= b THEN a ELSE b

-----------------------------------------------------------------------------
(* Strings *)

EMPTY == <<"e", "m", "p", "t", "y">>
COMPLETED == <<"c", "o", "m", "p", "l", "e", "t", "e", "d">>
MIXED == <<"m", "i", "x", "e", "d">>
WITH_ITEMS == <<"w", "i", "t", "h", "-", "i", "t", "e", "m", "s">>
NO_STATE == <<>>

\* the labels getPageState can return
PageStates == {EMPTY, COMPLETED, MIXED, WITH_ITEMS}
\* the labels the cache is used with: the above and the default ''
States == PageStates \cup {NO_STATE}

URL_HOME == <<"/">>
URL_CATEGORY == <<"/", "#">>
Urls == {URL_HOME, URL_CATEGORY}

\* URLs of the cache harness: the above, and URLs that already end in a
\* delimiter followed by a state label.
CacheUrls == Urls \cup {URL_HOME \o <<"#">> \o s : s \in {EMPTY, MIXED}}

-----------------------------------------------------------------------------
(* AuditCache *)

\* the key without the state label
_getCacheKey_urlOnly(url, state) == url

_getCacheKey(url, state) == url \o <<"#">> \o state

\* false, and the values || treats like it
JsFalse == [type |-> "boolean", b |-> FALSE]
IsFalsy(v) == v \in {Undefined, Null, JsFalse, Num(0), Str("")}

\* get with ?? in place of ||
get_nullish(self, url, state) ==
    LET key == _getCacheKey(url, state)
        v == IF key \in DOMAIN self THEN self[key] ELSE Undefined
    IN  IF v \in {Undefined, Null} THEN Null ELSE v

get(self, url, state) ==
    LET key == _getCacheKey(url, state)
        v == IF key \in DOMAIN self THEN self[key] ELSE Undefined
    IN  IF IsFalsy(v) THEN Null ELSE v

getLighthouseRuns(runsMap, url, state) ==
    LET key == _getCacheKey(url, state)
    IN  IF key \in DOMAIN runsMap THEN runsMap[key] ELSE <<>>

\* the run put in front of the list
addLighthouseRun_prepend(runsMap, url, results, state) ==
    LET key == _getCacheKey(url, state)
        runs == <<results>> \o getLighthouseRuns(runsMap, url, state)
    IN  (key :> runs) @@ runsMap

addLighthouseRun(runsMap, url, results, state) ==
    LET key == _getCacheKey(url, state)
        runs == Append(getLighthouseRuns(runsMap, url, state), results)
    IN  (key :> runs) @@ runsMap

\* a set that keeps the value a key already has
set_keepFirst(self, url, results, state) ==
    LET key == _getCacheKey(url, state)
    IN  self @@ (key :> results)

set(self, url, results, state) ==
    LET key == _getCacheKey(url, state)
    IN  (key :> results) @@ self

\* has() that forgets the state label
has_withoutState(self, url, state) == _getCacheKey(url, NO_STATE) \in DOMAIN self

has(self, url, state) == _getCacheKey(url, state) \in DOMAIN self

\* more runs than required
hasEnoughLighthouseRuns_strict(runsMap, url, state, requiredRuns) ==
    Len(getLighthouseRuns(runsMap, url, state)) > requiredRuns

hasEnoughLighthouseRuns(runsMap, url, state, requiredRuns) ==
    Len(getLighthouseRuns(runsMap, url, state)) >= requiredRuns

\* the default of the parameter requiredRuns
DefaultRequiredRuns == 3

\* hasEnoughLighthouseRuns(url, state) called without requiredRuns
hasEnoughLighthouseRuns_omitted(runsMap, url, state) ==
    hasEnoughLighthouseRuns(runsMap, url, state, DefaultRequiredRuns)

\* both maps after clear()
clear == <<>>

\* lookups that leave an empty run list behind for a key without runs
lookups_createEntry(self, runsMap, url, state) ==
    LET key == _getCacheKey(url, state)
    IN  <<self, runsMap @@ (key :> <<>>)>>

\* both maps after has, get, getLighthouseRuns and hasEnoughLighthouseRuns
\* for (url, state): Map.has and Map.get read, and "|| null" / "|| []"
\* build the default without storing it
lookups(self, runsMap, url, state) ==
    LET key == _getCacheKey(url, state)
    IN  <<self, runsMap>>

-----------------------------------------------------------------------------
(* Parts of the state a harness does not use *)

Pairs == Urls \X PageStates

\* a runCombinedAudit invocation that has not begun.  Locals of the code:
\* url, state, axeResults, lighthouseResults, remainingRuns, i, and
\* timestamp (of the engine wrapper in flight); ret is the value returned.
\* Observations about the invocation: epoch (resets before it began),
\* resultsBefore, runsBefore, hadAxe (testResults, the key's run count and
\* has(url, state) when it began), axeCalls / lhCalls (engine invocations
\* it made), threw (an engine invocation of it failed), content (what the
\* page showed when it began).
IdleCall == [pc |-> "idle", url |-> <<>>, state |-> <<>>, content |-> "",
             axeResults |-> Null, lighthouseResults |-> Null,
             remainingRuns |-> 0, i |-> 0, timestamp |-> 0,
             ret |-> Undefined,
             epoch |-> 0, runsBefore |-> 0, hadAxe |-> FALSE,
             resultsBefore |-> <<>>, axeCalls |-> 0, lhCalls |-> 0,
             threw |-> FALSE]

UNSET == "(unset)"

\* the config of the tests: device and throttling settings, no thresholds
AUDIT_CONFIG == [deviceSettings |-> "desktop", throttlingSettings |-> "fast"]

\* consolidated-report.js when the module is loaded: line 14, no file yet
NoReports == [executionTimestamp |-> Null, files |-> <<>>, log |-> <<>>]

\* the page before a test navigates
BlankPage == [url |-> URL_HOME, total |-> 0, completed |-> 0,
              content |-> "empty todo list"]

OrchestratorUnused ==
    /\ testResults = <<>>
    /\ env = [ENABLE_AXE |-> UNSET, ENABLE_LIGHTHOUSE |-> UNSET]
    /\ config = AUDIT_CONFIG
    /\ reports = NoReports
    /\ page = BlankPage
    /\ calls = [c \in 1..MaxCalls |-> IdleCall]
    /\ nextCall = 0
    /\ clock = 0
    /\ epoch = 0
    /\ axeInvoked = [p \in Pairs |-> 0]
    /\ axeStored = [p \in Pairs |-> 0]

CacheHarnessUnused ==
    pairP = <<>> /\ pairQ = <<>> /\ ops = 0 /\ written = <<>>

AverageHarnessUnused == runsIn = <<>> /\ avgOut = Undefined

IdleClassifier == [pc |-> "idle", completedItems |-> 0, totalItems |-> 0,
                   label |-> NO_STATE, changed |-> FALSE]

\* moveFile not called: no directory, no file, locals unset
IdleMove == [pc |-> "idle", dirExists |-> FALSE, sourceExists |-> FALSE,
             targetExists |-> FALSE, created |-> FALSE, retries |-> 0,
             waited |-> 0, renames |-> 0, absentAtCheck |-> FALSE]

MoveHarnessUnused == mv = IdleMove

PageHarnessUnused ==
    /\ dom = [total |-> 0, completed |-> 0, edits |-> 0]
    /\ cls = IdleClassifier

orchestratorVars == <<testResults, env, config, page, calls, nextCall, clock,
                      epoch, axeInvoked, axeStored, reports>>
cacheHarnessVars == <<pairP, pairQ, ops, written>>
averageHarnessVars == <<runsIn, avgOut>>
pageHarnessVars == <<dom, cls>>
moveHarnessVars == <<mv>>

-----------------------------------------------------------------------------
(* Cache harness: any sequence of set / addLighthouseRun / clear on two   *)
(* distinct (url, state) pairs.  A stored value records the pair it was    *)
(* stored under.                                                           *)

CachePairs == CacheUrls \X States
CacheValues == {"A", "B"}

StoredValue(p, v) == [storedUnder |-> p, value |-> v]

NothingWritten == [sets |-> <<>>, adds |-> <<>>]

InitCache ==
    /\ cache = clear
    /\ lighthouseRuns = clear
    /\ pairP \in CachePairs
    /\ pairQ \in CachePairs \ {pairP}
    /\ ops = 0
    /\ written = [p \in {pairP, pairQ} |-> NothingWritten]
    /\ OrchestratorUnused
    /\ AverageHarnessUnused
    /\ PageHarnessUnused
    /\ MoveHarnessUnused

CacheSet(p, v) ==
    /\ ops < MaxOps
    /\ cache' = set(cache, p[1], StoredValue(p, v), p[2])
    /\ ops' = ops + 1
    /\ written' = [written EXCEPT ![p].sets = Append(@, v)]
    /\ UNCHANGED <<lighthouseRuns, pairP, pairQ, orchestratorVars,
                   averageHarnessVars, pageHarnessVars,
                   moveHarnessVars>>

CacheAddRun(p, v) ==
    /\ ops < MaxOps
    /\ lighthouseRuns' =
           addLighthouseRun(lighthouseRuns, p[1], StoredValue(p, v), p[2])
    /\ ops' = ops + 1
    /\ written' = [written EXCEPT ![p].adds = Append(@, v)]
    /\ UNCHANGED <<cache, pairP, pairQ, orchestratorVars,
                   averageHarnessVars, pageHarnessVars,
                   moveHarnessVars>>

CacheClear ==
    /\ ops < MaxOps
    /\ cache' = clear
    /\ lighthouseRuns' = clear
    /\ ops' = ops + 1
    /\ written' = [p \in {pairP, pairQ} |-> NothingWritten]
    /\ UNCHANGED <<pairP, pairQ, orchestratorVars,
                   averageHarnessVars, pageHarnessVars,
                   moveHarnessVars>>

NextCache ==
    \/ \E p \in {pairP, pairQ}, v \in CacheValues : CacheSet(p, v)
    \/ \E p \in {pairP, pairQ}, v \in CacheValues : CacheAddRun(p, v)
    \/ CacheClear

SpecCache == InitCache /\ [][NextCache]_vars

\* has, get, getLighthouseRuns and hasEnoughLighthouseRuns called for a pair,
\* written to or not
CacheLookup(p) ==
    /\ ops < MaxOps
    /\ cache' = lookups(cache, lighthouseRuns, p[1], p[2])[1]
    /\ lighthouseRuns' = lookups(cache, lighthouseRuns, p[1], p[2])[2]
    /\ ops' = ops + 1
    /\ UNCHANGED <<pairP, pairQ, written, orchestratorVars,
                   averageHarnessVars, pageHarnessVars,
                   moveHarnessVars>>

\* the cache harness with the lookups as steps
NextCacheFrame ==
    \/ \E p \in {pairP, pairQ}, v \in CacheValues : CacheSet(p, v)
    \/ \E p \in {pairP, pairQ}, v \in CacheValues : CacheAddRun(p, v)
    \/ \E p \in CachePairs : CacheLookup(p)
    \/ CacheClear

SpecCacheFrame == InitCache /\ [][NextCacheFrame]_vars

\* The cache given any JavaScript value: the falsy ones and an object as
\* runCombinedAudit stores it
FalsyValues == {Num(0), Str(""), JsFalse, Null}
AnyValues == FalsyValues \cup {[axeResults |-> Null]}
AnyPairs == Urls \X {EMPTY, NO_STATE}

InitCacheAny ==
    /\ cache = clear
    /\ lighthouseRuns = clear
    /\ pairP \in AnyPairs
    /\ pairQ \in AnyPairs \ {pairP}
    /\ ops = 0
    /\ written = [p \in {pairP, pairQ} |-> NothingWritten]
    /\ OrchestratorUnused
    /\ AverageHarnessUnused
    /\ PageHarnessUnused
    /\ MoveHarnessUnused

CacheSetAny(p, v) ==
    /\ ops < MaxOps
    /\ cache' = set(cache, p[1], v, p[2])
    /\ ops' = ops + 1
    /\ written' = [written EXCEPT ![p].sets = Append(@, v)]
    /\ UNCHANGED <<lighthouseRuns, pairP, pairQ, orchestratorVars,
                   averageHarnessVars, pageHarnessVars, moveHarnessVars>>

NextCacheAny ==
    \/ \E p \in {pairP, pairQ}, v \in AnyValues : CacheSetAny(p, v)
    \/ CacheClear

SpecCacheAny == InitCacheAny /\ [][NextCacheAny]_vars

\* the value last given to set for the pair since the last clear
LastSet(p) == written[p].sets[Len(written[p].sets)]

\* C24 as stated: for every key and every stored value, falsy ones
\* included, get returns null exactly when has is false.
NullOnlyWhenAbsent ==
    \A p \in DOMAIN written :
        get(cache, p[1], p[2]) = Null <=> ~has(cache, p[1], p[2])

\* C24 amended: get returns null exactly when has is false or the value
\* stored for the key is falsy (0, '', false, null); for a truthy stored
\* value it returns that value.
NullWhenAbsentOrFalsy ==
    \A p \in DOMAIN written :
        LET g == get(cache, p[1], p[2])
            stored == written[p].sets # <<>>
        IN  /\ stored <=> has(cache, p[1], p[2])
            /\ g = Null <=> (~stored \/ LastSet(p) \in FalsyValues)
            /\ g # Null => g = LastSet(p)

\* 0 is stored for one pair and an object for the other
NullWhenAbsentOrFalsyWitness ==
    /\ has(cache, pairP[1], pairP[2])
    /\ LastSet(pairP) = Num(0)
    /\ get(cache, pairP[1], pairP[2]) = Null
    /\ get(cache, pairQ[1], pairQ[2]) = [axeResults |-> Null]
    /\ ops = 2

\* the entries of a map under the keys other than that of the pair
Others(m, p) ==
    [k \in DOMAIN m \ {_getCacheKey(p[1], p[2])} |-> m[k]]

\* C29: a step of has, get, getLighthouseRuns and hasEnoughLighthouseRuns
\* (nothing is recorded as written) changes neither map and creates no entry;
\* set(key, v) changes no run list and no deterministic entry of another
\* key; addLighthouseRun(key, r) changes no deterministic entry and no run
\* list of another key.
CacheFrameConditions ==
    [][/\ written' = written =>
           /\ cache' = cache
           /\ lighthouseRuns' = lighthouseRuns
           /\ DOMAIN cache' = DOMAIN cache
           /\ DOMAIN lighthouseRuns' = DOMAIN lighthouseRuns
       /\ \A p \in DOMAIN written :
           /\ Len(written'[p].sets) > Len(written[p].sets) =>
                  /\ lighthouseRuns' = lighthouseRuns
                  /\ Others(cache', p) = Others(cache, p)
                  /\ has(cache', p[1], p[2])
           /\ Len(written'[p].adds) > Len(written[p].adds) =>
                  /\ cache' = cache
                  /\ Others(lighthouseRuns', p) = Others(lighthouseRuns, p)
                  /\ getLighthouseRuns(lighthouseRuns', p[1], p[2]) # <<>>
      ]_vars

\* a lookup, a set for one pair and an addLighthouseRun for the other have
\* happened: the first pair has a value and no run, the second a run and no
\* value
CacheFrameConditionsWitness ==
    /\ ops = 3
    /\ written[pairP] = [sets |-> <<"A">>, adds |-> <<>>]
    /\ written[pairQ] = [sets |-> <<>>, adds |-> <<"B">>]
    /\ has(cache, pairP[1], pairP[2])
    /\ ~has(cache, pairQ[1], pairQ[2])
    /\ getLighthouseRuns(lighthouseRuns, pairP[1], pairP[2]) = <<>>
    /\ DOMAIN lighthouseRuns = {_getCacheKey(pairQ[1], pairQ[2])}

\* C3: distinct (url, state) pairs have distinct cache keys, and what get,
\* has and getLighthouseRuns return for a pair was stored under that pair.
KeyIsolation ==
    /\ \A p \in CachePairs : \A q \in CachePairs :
           p # q => _getCacheKey(p[1], p[2]) # _getCacheKey(q[1], q[2])
    /\ \A p \in CachePairs :
           LET g == get(cache, p[1], p[2])
               runs == getLighthouseRuns(lighthouseRuns, p[1], p[2])
           IN  /\ g # Null => g.storedUnder = p
               /\ has(cache, p[1], p[2]) => g # Null /\ g.storedUnder = p
               /\ \A n \in 1..Len(runs) : runs[n].storedUnder = p

\* both pairs hold a value and a run, one URL contains the delimiter and
\* the two keys differ only by it
KeyIsolationWitness ==
    /\ pairP = <<URL_HOME \o <<"#">> \o EMPTY, NO_STATE>>
    /\ pairQ = <<URL_HOME, EMPTY>>
    /\ has(cache, pairP[1], pairP[2])
    /\ get(cache, pairQ[1], pairQ[2]) # Null
    /\ Len(getLighthouseRuns(lighthouseRuns, pairQ[1], pairQ[2])) > 0

\* the values v1, v2, ... as stored under the pair p
StoredAll(p, vs) == [n \in 1..Len(vs) |-> StoredValue(p, vs[n])]

IsPrefix(s, t) == Len(s) <= Len(t) /\ s = SubSeq(t, 1, Len(s))

RunsAppendedInCallOrder ==
    /\ [](\A p \in DOMAIN written :
             LET runs == getLighthouseRuns(lighthouseRuns, p[1], p[2])
             IN  /\ Len(runs) = Len(written[p].adds)
                 /\ runs = StoredAll(p, written[p].adds))
    /\ [][\/ \A p \in CachePairs :
               IsPrefix(getLighthouseRuns(lighthouseRuns, p[1], p[2]),
                        getLighthouseRuns(lighthouseRuns', p[1], p[2]))
          \/ written' = [p \in DOMAIN written |-> NothingWritten]]_vars

\* A then B added for P, with a run added for the other pair in between
RunsAppendedInCallOrderWitness ==
    /\ written[pairP].adds = <<"A", "B">>
    /\ written[pairQ].adds = <<"B">>
    /\ getLighthouseRuns(lighthouseRuns, pairP[1], pairP[2])
           = <<StoredValue(pairP, "A"), StoredValue(pairP, "B")>>

\* the required counts asked about
RequiredCounts == 0..(MaxOps + 1)

\* C13: hasEnoughLighthouseRuns(url, state, R) is true exactly when the
\* runs added for the key since the last clear number at least R; without R
\* it answers as for R = 3.
EnoughRunsIffAtLeastRequired ==
    \A p \in DOMAIN written :
        LET n == Len(written[p].adds)
        IN  /\ \A R \in RequiredCounts :
                   hasEnoughLighthouseRuns(lighthouseRuns, p[1], p[2], R)
                       <=> n >= R
            /\ hasEnoughLighthouseRuns_omitted(lighthouseRuns, p[1], p[2])
                   <=> n >= 3

\* three runs: enough for R = 3 and for R omitted, not enough for R = 4
EnoughRunsWitness ==
    /\ Len(written[pairP].adds) = 3
    /\ hasEnoughLighthouseRuns(lighthouseRuns, pairP[1], pairP[2], 3)
    /\ hasEnoughLighthouseRuns_omitted(lighthouseRuns, pairP[1], pairP[2])
    /\ ~hasEnoughLighthouseRuns(lighthouseRuns, pairP[1], pairP[2], 4)
    /\ ~hasEnoughLighthouseRuns_omitted(lighthouseRuns, pairQ[1], pairQ[2])

-----------------------------------------------------------------------------
(* calculateAverageLighthouseScores *)

metrics == <<"performance", "accessibility", "bestPractices", "seo", "pwa">>
Metrics == {metrics[n] : n \in 1..Len(metrics)}

\* the own fields a spread (...run) copies; spreading null copies nothing
Fields(obj) == IF obj \in {Null, Undefined} THEN {} ELSE DOMAIN obj

\* what one run adds to totals[metric] (lines 138-144)
Contribution(run, metric) ==
    IF /\ run # Null
       /\ "scores" \in DOMAIN run
       /\ metric \in DOMAIN run.scores
       /\ IsNumber(run.scores[metric])
    THEN run.scores[metric].n
    ELSE 0

RECURSIVE Total(_, _)
Total(items, metric) ==
    IF items = <<>> THEN 0
    ELSE Total(SubSeq(items, 1, Len(items) - 1), metric)
             + Contribution(items[Len(items)], metric)

\* Math.floor in place of Math.round
RoundedAverage_floor(total, length) == 2 * (total \div (2 * length))

\* Math.round((total / length) * 100) / 100 for total >= 0: the quotient
\* in hundredths is floor(total/length * 100 + 1/2)
RoundedAverage(total, length) == 2 * ((total + length) \div (2 * length))

\* the number of runs that hold the metric as the divisor
calculateAverageLighthouseScores_skipMissing(runs) ==
    IF runs \in {Null, Undefined} THEN Null
    ELSE IF Len(runs.items) = 0 THEN Null
    ELSE
      LET items == runs.items
          last == items[Len(items)]
          holders(m) ==
              Cardinality({n \in 1..Len(items) :
                              /\ items[n] # Null
                              /\ "scores" \in DOMAIN items[n]
                              /\ m \in DOMAIN items[n].scores
                              /\ IsNumber(items[n].scores[m])})
          averages == [m \in Metrics |->
                          Num(RoundedAverage(Total(items, m),
                                             Max(1, holders(m))))]
      IN  [f \in Fields(last) \cup {"scores", "runs"} |->
              IF f = "scores" THEN averages
              ELSE IF f = "runs" THEN Len(items)
              ELSE last[f]]

\* the other fields taken from the first run
calculateAverageLighthouseScores_firstRun(runs) ==
    IF runs \in {Null, Undefined} THEN Null
    ELSE IF Len(runs.items) = 0 THEN Null
    ELSE
      LET items == runs.items
          first == items[1]
          averages == [m \in Metrics |->
                          Num(RoundedAverage(Total(items, m), Len(items)))]
      IN  [f \in Fields(first) \cup {"scores", "runs"} |->
              IF f = "scores" THEN averages
              ELSE IF f = "runs" THEN Len(items)
              ELSE first[f]]

\* no early return for an empty list
calculateAverageLighthouseScores_noGuard(runs) ==
    IF runs \in {Null, Undefined} THEN Null
    ELSE
      LET items == runs.items
          last == IF Len(items) = 0 THEN Undefined ELSE items[Len(items)]
          averages == [m \in Metrics |->
                          IF Len(items) = 0 THEN Str("NaN")
                          ELSE Num(RoundedAverage(Total(items, m),
                                                  Len(items)))]
      IN  [f \in Fields(last) \cup {"scores", "runs"} |->
              IF f = "scores" THEN averages
              ELSE IF f = "runs" THEN Len(items)
              ELSE last[f]]

calculateAverageLighthouseScores(runs) ==
    IF runs \in {Null, Undefined} THEN Null
    ELSE IF Len(runs.items) = 0 THEN Null
    ELSE
      LET items == runs.items
          last == items[Len(items)]
          averages == [m \in Metrics |->
                          Num(RoundedAverage(Total(items, m), Len(items)))]
      IN  [f \in Fields(last) \cup {"scores", "runs"} |->
              IF f = "scores" THEN averages
              ELSE IF f = "runs" THEN Len(items)
              ELSE last[f]]

-----------------------------------------------------------------------------
(* Averaging harness: the function applied to one input *)

\* 0.125, 0.25, 80, 90, 100
ScoreValues == {25, 50, 80 * Unit, 90 * Unit, 100 * Unit}

ScoreObjects ==
    {[performance |-> Num(p), accessibility |-> Num(90 * Unit),
      bestPractices |-> Num(100 * Unit), seo |-> Num(25), pwa |-> Num(0)]
        : p \in ScoreValues}
    \cup {[performance |-> Num(90 * Unit)],
          [performance |-> Num(25), seo |-> Str("90"),
           untracked |-> Num(70 * Unit)],
          [untracked |-> Num(70 * Unit)]}

RunSamples ==
    {[scores |-> so, reportPaths |-> 1] : so \in ScoreObjects}
    \cup {[scores |-> [performance |-> Num(50)], runs |-> 7,
           reportPaths |-> 2, thresholdBreached |-> TRUE],
          [reportPaths |-> 3],
          Null}

RECURSIVE SeqsUpTo(_, _)
SeqsUpTo(S, n) ==
    IF n = 0 THEN {<<>>}
    ELSE LET shorter == SeqsUpTo(S, n - 1)
         IN  shorter \cup {Append(q, x) : q \in shorter, x \in S}

InitAverage ==
    /\ runsIn \in {Undefined, Null}
                  \cup {Arr(q) : q \in SeqsUpTo(RunSamples, MaxRuns)}
    /\ avgOut = Undefined
    /\ cache = clear
    /\ lighthouseRuns = clear
    /\ OrchestratorUnused
    /\ CacheHarnessUnused
    /\ PageHarnessUnused
    /\ MoveHarnessUnused

Average ==
    /\ avgOut = Undefined
    /\ avgOut' = calculateAverageLighthouseScores(runsIn)
    /\ UNCHANGED <<runsIn, cache, lighthouseRuns, orchestratorVars,
                   cacheHarnessVars, pageHarnessVars,
                   moveHarnessVars>>

NextAverage == Average

SpecAverage == InitAverage /\ [][NextAverage]_vars

\* the harness has applied the function to a non-empty list
Averaged == avgOut \notin {Undefined, Null}

HasMetric(run, m) ==
    /\ run # Null
    /\ "scores" \in DOMAIN run
    /\ m \in DOMAIN run.scores
    /\ IsNumber(run.scores[m])

RECURSIVE SumOf(_, _)
SumOf(items, m) ==
    IF items = <<>> THEN 0
    ELSE (IF HasMetric(Head(items), m) THEN Head(items).scores[m].n ELSE 0)
             + SumOf(Tail(items), m)

\* q hundredths is the mean sum/n rounded half-up to two decimals:
\* q - 1/2 <= 100 * (sum / Unit) / n < q + 1/2
IsMeanRoundedHalfUp(score, sum, n) ==
    /\ score % 2 = 0
    /\ LET q == score \div 2
       IN  2 * n * q - n <= sum /\ sum < 2 * n * q + n

EightyNinetyHundred ==
    Arr(<<[scores |-> [performance |-> Num(80 * Unit)], reportPaths |-> 1],
          [scores |-> [performance |-> Num(90 * Unit)], reportPaths |-> 1],
          [scores |-> [performance |-> Num(100 * Unit)], reportPaths |-> 1]>>)

\* C5: for every tracked metric that all runs of a non-empty list hold, the
\* returned score is the arithmetic mean of the metric over the runs
\* rounded half-up to two decimals; 80, 90, 100 give 90.00.
AverageIsRoundedMean ==
    Averaged =>
        /\ \A m \in Metrics :
              (\A n \in 1..Len(runsIn.items) : HasMetric(runsIn.items[n], m))
                  => IsMeanRoundedHalfUp(avgOut.scores[m].n,
                                         SumOf(runsIn.items, m),
                                         Len(runsIn.items))
        /\ DOMAIN avgOut.scores = Metrics
        /\ runsIn = EightyNinetyHundred
               => avgOut.scores["performance"] = Num(90 * Unit)

\* a list of two runs whose mean 0.125 lies on a rounding tie: 0.13
AverageIsRoundedMeanWitness ==
    /\ Averaged
    /\ Len(runsIn.items) = 2
    /\ \A n \in 1..2 : HasMetric(runsIn.items[n], "performance")
    /\ SumOf(runsIn.items, "performance") = 50
    /\ avgOut.scores["performance"] = Num(26)

\* C6: a run that lacks a metric, lacks scores, is null or holds a
\* non-number for the metric adds 0 to the sum and still counts in the
\* divisor; [{performance:90},{}] gives 45.00.
MissingMetricCountsAsZero ==
    Averaged =>
        /\ \A m \in Metrics :
              (\E n \in 1..Len(runsIn.items) : ~HasMetric(runsIn.items[n], m))
                  => IsMeanRoundedHalfUp(avgOut.scores[m].n,
                                         SumOf(runsIn.items, m),
                                         Len(runsIn.items))
        /\ runsIn = Arr(<<[scores |-> [performance |-> Num(90 * Unit)],
                           reportPaths |-> 1],
                          [scores |-> [untracked |-> Num(70 * Unit)],
                           reportPaths |-> 1]>>)
               => avgOut.scores["performance"] = Num(45 * Unit)

\* one run holds performance 90, the other holds no tracked metric: 45.00
MissingMetricWitness ==
    /\ Averaged
    /\ Len(runsIn.items) = 2
    /\ HasMetric(runsIn.items[1], "performance")
    /\ runsIn.items[1].scores["performance"] = Num(90 * Unit)
    /\ ~HasMetric(runsIn.items[2], "performance")
    /\ avgOut.scores["performance"] = Num(45 * Unit)

\* C7: every field of the result other than scores and runs is the same
\* field of the last run, and runs is the length of the list.
OtherFieldsFromLastRun ==
    Averaged =>
        LET last == runsIn.items[Len(runsIn.items)]
            others == DOMAIN avgOut \ {"scores", "runs"}
        IN  /\ others = Fields(last) \ {"scores", "runs"}
            /\ \A f \in others : avgOut[f] = last[f]
            /\ avgOut.runs = Len(runsIn.items)

\* the last run differs from the first in a field other than scores/runs,
\* and holds a runs field of its own
OtherFieldsWitness ==
    /\ Averaged
    /\ Len(runsIn.items) = 3
    /\ runsIn.items[1] # Null /\ runsIn.items[1].reportPaths = 1
    /\ runsIn.items[3] # Null /\ runsIn.items[3].reportPaths = 2
    /\ runsIn.items[3].runs = 7
    /\ avgOut.reportPaths = 2 /\ avgOut.runs = 3

\* C8: an empty list, and no list, give null.
EmptyGivesNull ==
    (runsIn \in {Undefined, Null, Arr(<<>>)} /\ avgOut # Undefined)
        => avgOut = Null

EmptyGivesNullWitness == runsIn = Arr(<<>>) /\ avgOut = Null

-----------------------------------------------------------------------------
(* getPageState *)

\* states.empty, states.completed, states.mixed on the lengths of the
\* lists page.$$ returned
statesEmpty(items) == items = 0
statesCompleted(completedItems, totalItems) ==
    completedItems > 0 /\ completedItems = totalItems
\* states.mixed without the completedItems.length > 0 test
statesMixed_anyCompleted(completedItems, totalItems) ==
    completedItems < totalItems

statesMixed(completedItems, totalItems) ==
    completedItems > 0 /\ completedItems < totalItems

\* getPageState on a page that holds still while it is inspected
getPageState(pg) ==
    IF statesEmpty(pg.total) THEN EMPTY
    ELSE IF statesCompleted(pg.completed, pg.total) THEN COMPLETED
    ELSE IF statesMixed(pg.completed, pg.total) THEN MIXED
    ELSE WITH_ITEMS

-----------------------------------------------------------------------------
(* Page-state harness: getPageState await by await, on a todo list that   *)
(* the test may edit at any time.                                          *)

InitPage ==
    /\ dom \in {[total |-> t, completed |-> c, edits |-> 0] :
                    t \in 0..MaxItems, c \in 0..MaxItems}
    /\ dom.completed <= dom.total
    /\ cls = IdleClassifier
    /\ cache = clear
    /\ lighthouseRuns = clear
    /\ OrchestratorUnused
    /\ CacheHarnessUnused
    /\ AverageHarnessUnused
    /\ MoveHarnessUnused

pageHarnessFrame == <<moveHarnessVars, cache, lighthouseRuns, orchestratorVars,
                      cacheHarnessVars, averageHarnessVars>>

\* getPageState(page) is called: states.empty() issues its query
ClassifyStart ==
    /\ cls.pc = "idle"
    /\ cls' = [IdleClassifier EXCEPT !.pc = "empty"]
    /\ UNCHANGED <<dom, pageHarnessFrame>>

\* states.empty: items = await page.$$(".todo-list li")
ClassifyEmpty ==
    /\ cls.pc = "empty"
    /\ cls' = IF statesEmpty(dom.total)
              THEN [cls EXCEPT !.pc = "done", !.label = EMPTY]
              ELSE [cls EXCEPT !.pc = "completed.completedItems"]
    /\ UNCHANGED <<dom, pageHarnessFrame>>

\* states.completed / states.mixed:
\* completedItems = await page.$$(".todo-list li.completed")
ClassifyCompletedItems ==
    /\ cls.pc \in {"completed.completedItems", "mixed.completedItems"}
    /\ cls' = [cls EXCEPT !.completedItems = dom.completed,
                          !.pc = IF cls.pc = "completed.completedItems"
                                 THEN "completed.totalItems"
                                 ELSE "mixed.totalItems"]
    /\ UNCHANGED <<dom, pageHarnessFrame>>

\* states.completed: totalItems = await page.$$(".todo-list li")
ClassifyCompleted ==
    /\ cls.pc = "completed.totalItems"
    /\ cls' = IF statesCompleted(cls.completedItems, dom.total)
              THEN [cls EXCEPT !.pc = "done", !.label = COMPLETED,
                               !.totalItems = dom.total]
              ELSE [cls EXCEPT !.pc = "mixed.completedItems",
                               !.totalItems = dom.total]
    /\ UNCHANGED <<dom, pageHarnessFrame>>

\* states.mixed: totalItems = await page.$$(".todo-list li")
ClassifyMixed ==
    /\ cls.pc = "mixed.totalItems"
    /\ cls' = [cls EXCEPT !.pc = "done",
                          !.totalItems = dom.total,
                          !.label = IF statesMixed(cls.completedItems,
                                                   dom.total)
                                    THEN MIXED ELSE WITH_ITEMS]
    /\ UNCHANGED <<dom, pageHarnessFrame>>

Edited(d) ==
    /\ dom.edits < MaxEdits
    /\ dom' = [d EXCEPT !.edits = dom.edits + 1]
    /\ cls' = IF cls.pc \in {"idle", "done"} THEN IdleClassifier
              ELSE [cls EXCEPT !.changed = TRUE]
    /\ UNCHANGED pageHarnessFrame

AddItem ==
    /\ dom.total < MaxItems
    /\ Edited([dom EXCEPT !.total = dom.total + 1])

CompleteItem ==
    /\ dom.completed < dom.total
    /\ Edited([dom EXCEPT !.completed = dom.completed + 1])

ClearCompleted ==
    /\ dom.completed > 0
    /\ Edited([dom EXCEPT !.total = dom.total - dom.completed,
                          !.completed = 0])

NextPage ==
    \/ ClassifyStart
    \/ ClassifyEmpty
    \/ ClassifyCompletedItems
    \/ ClassifyCompleted
    \/ ClassifyMixed
    \/ AddItem
    \/ CompleteItem
    \/ ClearCompleted

SpecPage == InitPage /\ [][NextPage]_vars

Classified == cls.pc = "done" /\ ~cls.changed

LabelMatches(label, t, c) ==
    /\ label = EMPTY <=> t = 0
    /\ label = COMPLETED <=> (t > 0 /\ c = t)
    /\ label = MIXED <=> (0 < c /\ c < t)
    /\ label = WITH_ITEMS <=> (t > 0 /\ c = 0)
    /\ label \in PageStates

\* C9: on a page that does not change during the call, with t items of
\* which c are completed, getPageState returns 'empty' iff t = 0,
\* 'completed' iff t > 0 and c = t, 'mixed' iff 0 < c < t, 'with-items' iff
\* t > 0 and c = 0; exactly one label applies.
PageStateClassification ==
    /\ Classified => LabelMatches(cls.label, dom.total, dom.completed)
    /\ LabelMatches(getPageState(dom), dom.total, dom.completed)
    /\ Cardinality(PageStates) = 4

\* the classifier went through all three checks and answered 'with-items'
PageStateClassificationWitness ==
    /\ Classified
    /\ dom.total = 2 /\ dom.completed = 0
    /\ cls.label = WITH_ITEMS

-----------------------------------------------------------------------------
(* The audit engines and their wrappers *)

\* defaultLighthouseOptions.thresholds
thresholds == [performance |-> 80 * Unit, accessibility |-> 90 * Unit,
               seo |-> 90 * Unit, pwa |-> 50 * Unit]
              @@ ("best-practices" :> 90 * Unit)

Categories == {"performance", "accessibility", "best-practices", "seo"}

\* results.lhr.categories[..].score as playAudit may report them
LhrOutputs ==
    {[c \in Categories |->
         IF c = "performance" THEN 175 ELSE IF c = "seo" THEN 100 ELSE 200],
     [c \in Categories |->
         IF c = "performance" THEN 125 ELSE IF c = "seo" THEN 200 ELSE 150]}

\* what runLighthouseAudit returns when playAudit reported lhr
runLighthouseAudit(lhr, timestamp) ==
    LET ms == [c \in Categories |-> MathRound(lhr[c] * 100)]
    IN  [metrics |-> ms,
         thresholdBreached |->
             \E key \in DOMAIN thresholds :
                 key \in DOMAIN ms /\ ms[key] < thresholds[key],
         reportPaths |-> [html |-> timestamp, json |-> timestamp]]

\* results of builder.analyze(): the impacts of the violations, the passes
AxeOutputs == {[violations |-> <<"serious", "minor">>, passes |-> 1]}

CountImpact(violations, impacts) ==
    Cardinality({n \in 1..Len(violations) : violations[n] \in impacts})

\* what runAccessibilityAudit returns when the engine reported results
runAccessibilityAudit(results, timestamp) ==
    LET v == results.violations
    IN  [metrics |->
            [total_violations |-> Len(v),
             critical_violations |-> CountImpact(v, {"critical"}),
             serious_violations |-> CountImpact(v, {"serious"}),
             moderate_violations |-> CountImpact(v, {"moderate"}),
             minor_violations |-> CountImpact(v, {"minor"}),
             passes |-> results.passes,
             total_tests |-> results.passes + Len(v),
             has_critical_or_serious |->
                 CountImpact(v, {"critical", "serious"}) > 0,
             has_moderate_or_minor |->
                 CountImpact(v, {"moderate", "minor"}) > 0],
         violations |-> v,
         reportPaths |-> [html |-> timestamp, json |-> timestamp]]

-----------------------------------------------------------------------------
(* runCombinedAudit, resetTestResults.  One action is the code that runs   *)
(* between two awaits.                                                     *)

REQUIRED_LIGHTHOUSE_RUNS == 3

EnvValues == {"true", "false", UNSET}

\* the pages the tests audit: two states of one URL, two URLs in one state
TestPages ==
    {[url |-> URL_HOME, total |-> 0, completed |-> 0,
      content |-> "empty todo list"],
     [url |-> URL_HOME, total |-> 2, completed |-> 1,
      content |-> "todo list with completed items"],
     [url |-> URL_CATEGORY, total |-> 0, completed |-> 0,
      content |-> "Phones"]}

testInfo(c) == [file |-> "tests/demo-todo-app.spec.js", title |-> c,
                project |-> [name |-> "chromium"]]

InFlight(c) == calls[c].pc \notin {"idle", "done", "failed"}
NoneInFlight == \A c \in 1..MaxCalls : ~InFlight(c)

Init ==
    /\ cache = clear
    /\ lighthouseRuns = clear
    /\ testResults = <<>>
    /\ env \in [{"ENABLE_AXE", "ENABLE_LIGHTHOUSE"} -> EnvValues]
    /\ config = AUDIT_CONFIG
    /\ reports = NoReports
    /\ page = BlankPage
    /\ calls = [c \in 1..MaxCalls |-> IdleCall]
    /\ nextCall = 0
    /\ clock = 0
    /\ epoch = 0
    /\ axeInvoked = [p \in Pairs |-> 0]
    /\ axeStored = [p \in Pairs |-> 0]
    /\ CacheHarnessUnused
    /\ AverageHarnessUnused
    /\ PageHarnessUnused
    /\ MoveHarnessUnused

orchestratorFrame == <<env, config, reports, nextCall, epoch, cacheHarnessVars,
                       averageHarnessVars, pageHarnessVars,
                   moveHarnessVars>>

\* the result added twice
Finish_addedTwice(c, cr, runsMap) ==
    LET name == IF testInfo(c).title # 0 THEN testInfo(c).title
                ELSE <<"Test for", cr.url>>
        result == [testFile |-> testInfo(c).file,
                   testName |-> name,
                   url |-> cr.url,
                   lighthouseResults |-> cr.lighthouseResults,
                   axeResults |-> cr.axeResults,
                   testInfo |-> [title |-> name, url |-> cr.url,
                                 project |-> testInfo(c).project]]
    IN  /\ testResults' = Append(Append(testResults, result), result)
        /\ calls' = [calls EXCEPT ![c] = [cr EXCEPT !.pc = "done",
                                                    !.ret = result]]
        /\ lighthouseRuns' = runsMap
        /\ clock' = clock

\* the result returned without testState.addResult
Finish_notAdded(c, cr, runsMap) ==
    LET name == IF testInfo(c).title # 0 THEN testInfo(c).title
                ELSE <<"Test for", cr.url>>
        result == [testFile |-> testInfo(c).file,
                   testName |-> name,
                   url |-> cr.url,
                   lighthouseResults |-> cr.lighthouseResults,
                   axeResults |-> cr.axeResults,
                   testInfo |-> [title |-> name, url |-> cr.url,
                                 project |-> testInfo(c).project]]
    IN  /\ testResults' = testResults
        /\ calls' = [calls EXCEPT ![c] = [cr EXCEPT !.pc = "done",
                                                    !.ret = result]]
        /\ lighthouseRuns' = runsMap
        /\ clock' = clock

\* lines 206-223: the result object, testState.addResult, return
Finish(c, cr, runsMap) ==
    LET name == IF testInfo(c).title # 0 THEN testInfo(c).title
                ELSE <<"Test for", cr.url>>
        result == [testFile |-> testInfo(c).file,
                   testName |-> name,
                   url |-> cr.url,
                   lighthouseResults |-> cr.lighthouseResults,
                   axeResults |-> cr.axeResults,
                   testInfo |-> [title |-> name, url |-> cr.url,
                                 project |-> testInfo(c).project]]
    IN  /\ testResults' = Append(testResults, result)
        /\ calls' = [calls EXCEPT ![c] = [cr EXCEPT !.pc = "done",
                                                    !.ret = result]]
        /\ lighthouseRuns' = runsMap
        /\ clock' = clock

\* lines 201-203, then the rest
AverageAndFinish(c, cr, runsMap) ==
    LET allRuns == getLighthouseRuns(runsMap, cr.url, cr.state)
    IN  Finish(c,
               [cr EXCEPT !.lighthouseResults =
                              calculateAverageLighthouseScores(Arr(allRuns))],
               runsMap)

\* the loop test letting one more run through
LoopHead_inclusive(c, cr, runsMap) ==
    IF cr.i <= cr.remainingRuns
    THEN /\ clock < MaxEngineRuns
         /\ calls' = [calls EXCEPT ![c] =
                         [cr EXCEPT !.pc = "lighthouse",
                                    !.timestamp = clock,
                                    !.lhCalls = cr.lhCalls + 1]]
         /\ clock' = clock + 1
         /\ lighthouseRuns' = runsMap
         /\ testResults' = testResults
    ELSE AverageAndFinish(c, cr, runsMap)

\* line 195: the loop test; line 196 starts an engine run and awaits it
LoopHead(c, cr, runsMap) ==
    IF cr.i < cr.remainingRuns
    THEN /\ clock < MaxEngineRuns
         /\ calls' = [calls EXCEPT ![c] =
                         [cr EXCEPT !.pc = "lighthouse",
                                    !.timestamp = clock,
                                    !.lhCalls = cr.lhCalls + 1]]
         /\ clock' = clock + 1
         /\ lighthouseRuns' = runsMap
         /\ testResults' = testResults
    ELSE AverageAndFinish(c, cr, runsMap)

\* the accumulated runs not subtracted
remainingRuns_all(accumulated) == REQUIRED_LIGHTHOUSE_RUNS

\* lines 192-194
remainingRuns(accumulated) == REQUIRED_LIGHTHOUSE_RUNS - accumulated

\* Lighthouse enabled unless the flag says false
LighthouseSection_unlessFalse(c, cr, runsMap) ==
    IF env.ENABLE_LIGHTHOUSE # "false"
    THEN IF ~hasEnoughLighthouseRuns(runsMap, cr.url, cr.state,
                                     REQUIRED_LIGHTHOUSE_RUNS)
         THEN LoopHead(c,
                       [cr EXCEPT
                          !.remainingRuns = remainingRuns(
                              Len(getLighthouseRuns(runsMap, cr.url,
                                                    cr.state))),
                          !.i = 0],
                       runsMap)
         ELSE AverageAndFinish(c, cr, runsMap)
    ELSE Finish(c, cr, runsMap)

\* lines 187-204, entered with the accessibility part decided
LighthouseSection(c, cr, runsMap) ==
    IF env.ENABLE_LIGHTHOUSE = "true"
    THEN IF ~hasEnoughLighthouseRuns(runsMap, cr.url, cr.state,
                                     REQUIRED_LIGHTHOUSE_RUNS)
         THEN LoopHead(c,
                       [cr EXCEPT
                          !.remainingRuns = remainingRuns(
                              Len(getLighthouseRuns(runsMap, cr.url,
                                                    cr.state))),
                          !.i = 0],
                       runsMap)
         ELSE AverageAndFinish(c, cr, runsMap)
    ELSE Finish(c, cr, runsMap)

\* a test navigates its page and calls runCombinedAudit: lines 168-169,
\* up to the await of getPageState
RunTest(pg) ==
    /\ nextCall < MaxCalls
    /\ NoneInFlight
    /\ page' = pg
    /\ nextCall' = nextCall + 1
    /\ LET url == pg.url
           state == getPageState(pg)
       IN  calls' = [calls EXCEPT ![nextCall + 1] =
               [IdleCall EXCEPT
                   !.pc = "getPageState", !.url = url, !.state = state,
                   !.content = pg.content,
                   !.epoch = epoch,
                   !.resultsBefore = testResults,
                   !.runsBefore =
                       Len(getLighthouseRuns(lighthouseRuns, url, state)),
                   !.hadAxe = has(cache, url, state)]]
    /\ UNCHANGED <<cache, lighthouseRuns, testResults, env, config, reports,
                   clock, epoch, axeInvoked, axeStored, cacheHarnessVars,
                   averageHarnessVars, pageHarnessVars,
                   moveHarnessVars>>

\* lines 172-184 with the state label known, and on from there
AxeSection(c) ==
    /\ calls[c].pc = "getPageState"
    /\ LET cr == calls[c]
       IN  IF env.ENABLE_AXE = "true"
           THEN IF has(cache, cr.url, cr.state)
                THEN /\ LighthouseSection(c,
                            [cr EXCEPT !.axeResults =
                                get(cache, cr.url, cr.state).axeResults],
                            lighthouseRuns)
                     /\ UNCHANGED axeInvoked
                ELSE /\ clock < MaxEngineRuns
                     /\ calls' = [calls EXCEPT ![c] =
                            [cr EXCEPT !.pc = "axe", !.timestamp = clock,
                                       !.axeCalls = cr.axeCalls + 1]]
                     /\ clock' = clock + 1
                     /\ axeInvoked' =
                            [axeInvoked EXCEPT ![<<cr.url, cr.state>>] = @ + 1]
                     /\ UNCHANGED <<lighthouseRuns, testResults>>
           ELSE /\ LighthouseSection(c, cr, lighthouseRuns)
                /\ UNCHANGED axeInvoked
    /\ UNCHANGED <<cache, axeStored, page, orchestratorFrame>>

\* line 181 resolves, line 182, and on from there
AxeReturn(c, results) ==
    /\ calls[c].pc = "axe"
    /\ LET cr == calls[c]
           axeResults == runAccessibilityAudit(results, cr.timestamp)
       IN  /\ cache' = set(cache, cr.url, [axeResults |-> axeResults],
                           cr.state)
           /\ axeStored' = [axeStored EXCEPT ![<<cr.url, cr.state>>] = @ + 1]
           /\ LighthouseSection(c, [cr EXCEPT !.axeResults = axeResults],
                                lighthouseRuns)
    /\ UNCHANGED <<axeInvoked, page, orchestratorFrame>>

\* line 181 rejects, the error is caught and the call carries on
AxeThrow_caught(c) ==
    /\ calls[c].pc = "axe"
    /\ LighthouseSection(c, [calls[c] EXCEPT !.threw = TRUE], lighthouseRuns)
    /\ UNCHANGED <<cache, axeInvoked, axeStored, page, orchestratorFrame>>

\* line 181 rejects: nothing catches it
AxeThrow(c) ==
    /\ calls[c].pc = "axe"
    /\ calls' = [calls EXCEPT ![c].pc = "failed", ![c].threw = TRUE]
    /\ UNCHANGED <<cache, lighthouseRuns, testResults, clock, axeInvoked,
                   axeStored, page, orchestratorFrame>>

\* the run not added before the loop goes on
LighthouseReturn_notAppended(c, lhr) ==
    /\ calls[c].pc = "lighthouse"
    /\ LET cr == calls[c]
       IN  LoopHead(c, [cr EXCEPT !.i = cr.i + 1], lighthouseRuns)
    /\ UNCHANGED <<cache, axeInvoked, axeStored, page, orchestratorFrame>>

\* the run added twice
LighthouseReturn_appendedTwice(c, lhr) ==
    /\ calls[c].pc = "lighthouse"
    /\ LET cr == calls[c]
           result == runLighthouseAudit(lhr, cr.timestamp)
           once == addLighthouseRun(lighthouseRuns, cr.url, result, cr.state)
       IN  LoopHead(c, [cr EXCEPT !.i = cr.i + 1],
                    addLighthouseRun(once, cr.url, result, cr.state))
    /\ UNCHANGED <<cache, axeInvoked, axeStored, page, orchestratorFrame>>

\* line 196 resolves, line 197, i++, and on from the loop test
LighthouseReturn(c, lhr) ==
    /\ calls[c].pc = "lighthouse"
    /\ LET cr == calls[c]
           result == runLighthouseAudit(lhr, cr.timestamp)
       IN  LoopHead(c, [cr EXCEPT !.i = cr.i + 1],
                    addLighthouseRun(lighthouseRuns, cr.url, result,
                                     cr.state))
    /\ UNCHANGED <<cache, axeInvoked, axeStored, page, orchestratorFrame>>

\* line 196 rejects, the error is caught and the call carries on
LighthouseThrow_caught(c) ==
    /\ calls[c].pc = "lighthouse"
    /\ AverageAndFinish(c, [calls[c] EXCEPT !.threw = TRUE], lighthouseRuns)
    /\ UNCHANGED <<cache, axeInvoked, axeStored, page, orchestratorFrame>>

\* line 196 rejects and the runs the call added are taken back
LighthouseThrow_rollback(c) ==
    /\ calls[c].pc = "lighthouse"
    /\ calls' = [calls EXCEPT ![c].pc = "failed", ![c].threw = TRUE]
    /\ LET cr == calls[c]
           kept == SubSeq(getLighthouseRuns(lighthouseRuns, cr.url, cr.state),
                          1, cr.runsBefore)
       IN  lighthouseRuns' =
               (_getCacheKey(cr.url, cr.state) :> kept) @@ lighthouseRuns
    /\ UNCHANGED <<cache, testResults, clock, axeInvoked,
                   axeStored, page, orchestratorFrame>>

\* line 196 rejects: nothing catches it
LighthouseThrow(c) ==
    /\ calls[c].pc = "lighthouse"
    /\ calls' = [calls EXCEPT ![c].pc = "failed", ![c].threw = TRUE]
    /\ UNCHANGED <<cache, lighthouseRuns, testResults, clock, axeInvoked,
                   axeStored, page, orchestratorFrame>>

\* a reset that leaves the accumulated Lighthouse runs
ResetTestResults_keepsRuns ==
    /\ epoch < MaxResets
    /\ NoneInFlight
    /\ testResults' = <<>>
    /\ cache' = clear
    /\ epoch' = epoch + 1
    /\ axeInvoked' = [p \in Pairs |-> 0]
    /\ axeStored' = [p \in Pairs |-> 0]
    /\ UNCHANGED <<lighthouseRuns, env, config, reports, page, calls,
                   nextCall, clock, cacheHarnessVars, averageHarnessVars,
                   pageHarnessVars,
                   moveHarnessVars>>

\* resetTestResults(): testState.reset(), auditCache.clear()
ResetTestResults ==
    /\ epoch < MaxResets
    /\ NoneInFlight
    /\ testResults' = <<>>
    /\ cache' = clear
    /\ lighthouseRuns' = clear
    /\ epoch' = epoch + 1
    /\ axeInvoked' = [p \in Pairs |-> 0]
    /\ axeStored' = [p \in Pairs |-> 0]
    /\ UNCHANGED <<env, config, reports, page, calls, nextCall, clock,
                   cacheHarnessVars, averageHarnessVars, pageHarnessVars,
                   moveHarnessVars>>

Next ==
    \/ \E pg \in TestPages : RunTest(pg)
    \/ \E c \in 1..MaxCalls : AxeSection(c)
    \/ \E c \in 1..MaxCalls, results \in AxeOutputs : AxeReturn(c, results)
    \/ \E c \in 1..MaxCalls : AxeThrow(c)
    \/ \E c \in 1..MaxCalls, lhr \in LhrOutputs : LighthouseReturn(c, lhr)
    \/ \E c \in 1..MaxCalls : LighthouseThrow(c)
    \/ ResetTestResults

Spec == Init /\ [][Next]_vars

-----------------------------------------------------------------------------
(* Test runs: the tests of a describe block call runCombinedAudit with    *)
(* their config, beforeAll calls resetTestResults and afterAll calls      *)
(* generateConsolidatedReport; several blocks run in one process.         *)

\* the config of the tests, and the same asking for 2 Lighthouse runs per
\* key (runCombinedAudit hands config to the engines and reads no field)
Configs ==
    {AUDIT_CONFIG,
     [deviceSettings |-> "desktop", throttlingSettings |-> "fast",
      requiredRuns |-> 2]}

\* the pages of the tests, with the second category view of the shop: the
\* URL and the state label of the first, other products
RunPages ==
    TestPages \cup {[url |-> URL_CATEGORY, total |-> 0, completed |-> 0,
                     content |-> "Laptops"]}

InitRun ==
    /\ cache = clear
    /\ lighthouseRuns = clear
    /\ testResults = <<>>
    /\ env \in [{"ENABLE_AXE", "ENABLE_LIGHTHOUSE"} -> EnvValues]
    /\ config \in Configs
    /\ reports = NoReports
    /\ page = BlankPage
    /\ calls = [c \in 1..MaxCalls |-> IdleCall]
    /\ nextCall = 0
    /\ clock = 0
    /\ epoch = 0
    /\ axeInvoked = [p \in Pairs |-> 0]
    /\ axeStored = [p \in Pairs |-> 0]
    /\ CacheHarnessUnused
    /\ AverageHarnessUnused
    /\ PageHarnessUnused
    /\ MoveHarnessUnused

\* the time: every engine invocation takes time, and afterAll waits 1000 ms
\* before it generates a report
Now == clock + Len(reports.log)

\* one string per instant
getFormattedTimestamp(now) == Str(now)

\* consolidated-<executionTimestamp>.<ext> in reports/consolidated
ReportPath(executionTimestamp, ext) ==
    [dir |-> "consolidated", timestamp |-> executionTimestamp.s, ext |-> ext]

\* createConsolidatedHtmlReport reads r.axeResults.metrics (line 154) and
\* generateTestSection result.lighthouseResults.reportPaths (line 203)
createConsolidatedHtmlReport_throws(results) ==
    \E n \in 1..Len(results) :
        \/ results[n].axeResults = Null
        \/ results[n].lighthouseResults = Null

\* afterAll of the describe block running has generated its report
Reported == \E n \in 1..Len(reports.log) : reports.log[n].run = epoch

\* a test of the describe block running: before afterAll
RunTestOfBlock(pg) == ~Reported /\ RunTest(pg)

\* afterAll, once per block: generateConsolidatedReport(), lines 28-114
GenerateConsolidatedReport ==
    /\ Len(reports.log) < MaxReports
    /\ NoneInFlight
    /\ ~Reported
    /\ LET executionTimestamp ==
               IF reports.executionTimestamp = Null
               THEN getFormattedTimestamp(Now)
               ELSE reports.executionTimestamp
           results == testResults
           throws == createConsolidatedHtmlReport_throws(results)
           htmlReportPath == ReportPath(executionTimestamp, "html")
           jsonReportPath == ReportPath(executionTimestamp, "json")
           report == [timestamp |-> executionTimestamp,
                      totalTests |-> Len(results), results |-> results]
       IN  reports' =
               [executionTimestamp |-> executionTimestamp,
                files |-> IF throws THEN reports.files
                          ELSE (htmlReportPath :> report)
                               @@ (jsonReportPath :> report)
                               @@ reports.files,
                log |-> Append(reports.log,
                               [run |-> epoch, at |-> Now,
                                timestamp |-> executionTimestamp,
                                threw |-> throws])]
    /\ UNCHANGED <<cache, lighthouseRuns, testResults, env, config, page,
                   calls, nextCall, clock, epoch, axeInvoked, axeStored,
                   cacheHarnessVars, averageHarnessVars, pageHarnessVars,
                   moveHarnessVars>>

NextRun ==
    \/ \E pg \in RunPages : RunTestOfBlock(pg)
    \/ \E c \in 1..MaxCalls : AxeSection(c)
    \/ \E c \in 1..MaxCalls, results \in AxeOutputs : AxeReturn(c, results)
    \/ \E c \in 1..MaxCalls : AxeThrow(c)
    \/ \E c \in 1..MaxCalls, lhr \in LhrOutputs : LighthouseReturn(c, lhr)
    \/ \E c \in 1..MaxCalls : LighthouseThrow(c)
    \/ ResetTestResults
    \/ GenerateConsolidatedReport

SpecRun == InitRun /\ [][NextRun]_vars

-----------------------------------------------------------------------------
(* Overlapping calls: within one describe block (no reset before its      *)
(* afterAll) runCombinedAudit is called again for the same page while     *)
(* earlier calls are suspended in an await; the calls interleave at       *)
(* their awaits.                                                          *)

\* the page of the overlapping calls: one URL in one state
OverlapPages == {BlankPage}

\* lines 168-169 as in RunTest, whatever the other calls are doing
RunTestOverlapping(pg) ==
    /\ nextCall < MaxCalls
    /\ nextCall < MaxOverlap
    /\ page' = pg
    /\ nextCall' = nextCall + 1
    /\ LET url == pg.url
           state == getPageState(pg)
       IN  calls' = [calls EXCEPT ![nextCall + 1] =
               [IdleCall EXCEPT
                   !.pc = "getPageState", !.url = url, !.state = state,
                   !.content = pg.content,
                   !.epoch = epoch,
                   !.resultsBefore = testResults,
                   !.runsBefore =
                       Len(getLighthouseRuns(lighthouseRuns, url, state)),
                   !.hadAxe = has(cache, url, state)]]
    /\ UNCHANGED <<cache, lighthouseRuns, testResults, env, config, reports,
                   clock, epoch, axeInvoked, axeStored, cacheHarnessVars,
                   averageHarnessVars, pageHarnessVars, moveHarnessVars>>

NextOverlap ==
    \/ \E pg \in OverlapPages : RunTestOverlapping(pg)
    \/ \E c \in 1..MaxCalls : AxeSection(c)
    \/ \E c \in 1..MaxCalls, results \in AxeOutputs : AxeReturn(c, results)
    \/ \E c \in 1..MaxCalls : AxeThrow(c)
    \/ \E c \in 1..MaxCalls, lhr \in LhrOutputs : LighthouseReturn(c, lhr)
    \/ \E c \in 1..MaxCalls : LighthouseThrow(c)

SpecOverlap == Init /\ [][NextOverlap]_vars

-----------------------------------------------------------------------------
(* moveFile(sourcePath, targetPath).  The code is synchronous; the file   *)
(* it waits for is written by another process, so the source can appear   *)
(* between any two of its file-system calls.                              *)

maxRetries == 10
retryInterval == 500

InitMove ==
    /\ mv \in {[IdleMove EXCEPT !.dirExists = d, !.sourceExists = src,
                                 !.targetExists = t] :
                    d \in BOOLEAN, src \in BOOLEAN, t \in BOOLEAN}
    /\ mv.targetExists => mv.dirExists
    /\ cache = clear
    /\ lighthouseRuns = clear
    /\ OrchestratorUnused
    /\ CacheHarnessUnused
    /\ AverageHarnessUnused
    /\ PageHarnessUnused

moveHarnessFrame == <<cache, lighthouseRuns, orchestratorVars,
                      cacheHarnessVars, averageHarnessVars, pageHarnessVars>>

\* lines 49-56: ensureDirectoryExists, retries = 0
MoveFile ==
    /\ mv.pc = "idle"
    /\ mv' = [mv EXCEPT !.pc = "while", !.dirExists = TRUE, !.retries = 0]
    /\ UNCHANGED moveHarnessFrame

\* the loop test letting one more retry through
WhileTest_oneMore ==
    /\ mv.pc = "while"
    /\ mv' = IF ~mv.sourceExists /\ mv.retries <= maxRetries
             THEN [mv EXCEPT !.pc = "wait", !.retries = mv.retries + 1]
             ELSE [mv EXCEPT !.pc = "if"]
    /\ UNCHANGED moveHarnessFrame

\* line 58: the loop test; line 59: retries++
WhileTest ==
    /\ mv.pc = "while"
    /\ mv' = IF ~mv.sourceExists /\ mv.retries < maxRetries
             THEN [mv EXCEPT !.pc = "wait", !.retries = mv.retries + 1]
             ELSE [mv EXCEPT !.pc = "if"]
    /\ UNCHANGED moveHarnessFrame

\* line 62: Atomics.wait on a fresh buffer times out after retryInterval
AtomicsWait ==
    /\ mv.pc = "wait"
    /\ mv' = [mv EXCEPT !.pc = "while", !.waited = mv.waited + retryInterval]
    /\ UNCHANGED moveHarnessFrame

\* lines 65-67: the check after the loop
IfTest ==
    /\ mv.pc = "if"
    /\ mv' = IF ~mv.sourceExists
             THEN [mv EXCEPT !.pc = "thrown", !.absentAtCheck = TRUE]
             ELSE [mv EXCEPT !.pc = "rename"]
    /\ UNCHANGED moveHarnessFrame

\* line 70: fs.renameSync(sourcePath, targetPath)
RenameSync ==
    /\ mv.pc = "rename"
    /\ mv' = [mv EXCEPT !.pc = "returned", !.sourceExists = FALSE,
                        !.targetExists = TRUE, !.renames = mv.renames + 1]
    /\ UNCHANGED moveHarnessFrame

\* the process writing the source file finishes
SourceCreated ==
    /\ mv.pc \notin {"returned", "thrown"}
    /\ ~mv.sourceExists /\ ~mv.created
    /\ mv' = [mv EXCEPT !.sourceExists = TRUE, !.created = TRUE]
    /\ UNCHANGED moveHarnessFrame

MoveStep == MoveFile \/ WhileTest \/ AtomicsWait \/ IfTest \/ RenameSync

NextMove == MoveStep \/ SourceCreated

\* synchronous code runs on; the wait times out
SpecMove == InitMove /\ [][NextMove]_vars /\ WF_vars(MoveStep)

MoveFinished == mv.pc \in {"returned", "thrown"}

\* C21: moveFile terminates; it waits at most maxRetries times,
\* retryInterval each; it throws exactly when the source is absent at the
\* check after the loop, and then renames nothing; otherwise it renames the
\* source to the target exactly once.
MoveFileTerminates ==
    /\ (mv.pc # "idle") ~> MoveFinished
    /\ [](/\ mv.retries <= maxRetries
          /\ mv.waited <= maxRetries * retryInterval
          /\ mv.pc \in {"while", "if"} => mv.waited = mv.retries * retryInterval
          /\ mv.pc = "thrown" => mv.renames = 0 /\ mv.absentAtCheck
          /\ mv.pc = "returned" => /\ mv.renames = 1 /\ ~mv.absentAtCheck
                                   /\ mv.targetExists /\ ~mv.sourceExists
          /\ mv.renames <= 1)
    /\ [][(mv.pc = "if" /\ mv'.pc # "if")
              => (mv'.pc = "thrown" <=> ~mv.sourceExists)]_vars
    /\ [][mv'.targetExists # mv.targetExists => mv'.pc = "returned"]_vars

\* the source never appeared: ten waits, then the error, nothing renamed
MoveFileTerminatesWitness ==
    /\ mv.pc = "thrown" /\ mv.retries = maxRetries
    /\ mv.waited = maxRetries * retryInterval
    /\ ~mv.created /\ mv.renames = 0

-----------------------------------------------------------------------------
(* Properties of runCombinedAudit *)

AxeOn == env.ENABLE_AXE = "true"
LighthouseOn == env.ENABLE_LIGHTHOUSE = "true"

Done(c) == calls[c].pc = "done"
Began(c) == calls[c].pc # "idle"

\* c and d audit the same (url, state) with no reset in between
SameKey(c, d) ==
    /\ Began(c) /\ Began(d)
    /\ calls[c].url = calls[d].url
    /\ calls[c].state = calls[d].state
    /\ calls[c].epoch = calls[d].epoch

\* c is the latest invocation and nothing was reset since it began
Latest(c) == c = nextCall /\ calls[c].epoch = epoch

\* C1: with ENABLE_LIGHTHOUSE=true, a successful call on a key that holds
\* k runs invokes the Lighthouse engine max(0, 3 - k) times; the first call
\* for a key after a reset invokes it 3 times; a later call for the key
\* invokes it 0 times and returns the same scores and runs count.
LighthouseRunsOnDemand ==
    LighthouseOn =>
        \A c \in 1..MaxCalls : Done(c) =>
            /\ calls[c].lhCalls =
                   Max(0, REQUIRED_LIGHTHOUSE_RUNS - calls[c].runsBefore)
            /\ (\A d \in 1..(c - 1) : ~SameKey(c, d)) => calls[c].lhCalls = 3
            /\ \A d \in (c + 1)..MaxCalls : SameKey(c, d) =>
                   /\ calls[d].lhCalls = 0
                   /\ Done(d) =>
                         LET first == calls[c].ret.lighthouseResults
                             later == calls[d].ret.lighthouseResults
                         IN  /\ later # Null
                             /\ later.scores = first.scores
                             /\ later.runs = first.runs

\* a call fails after one run, the next call for the key adds the two
\* missing runs, the third adds none
LighthouseRunsOnDemandWitness ==
    /\ LighthouseOn
    /\ calls[1].pc = "failed"
    /\ Done(2) /\ calls[2].runsBefore = 1 /\ calls[2].lhCalls = 2
    /\ Done(3) /\ SameKey(2, 3) /\ calls[3].lhCalls = 0
    /\ calls[3].ret.lighthouseResults.runs = 3

\* C2 as stated: with ENABLE_AXE=true the accessibility engine is invoked
\* at most once per key between two clears and its result stored at most
\* once; the first successful call for a key invokes it once, every later
\* call for the key zero times, returning the stored result.
AxeInvokedOncePerKey ==
    AxeOn =>
        /\ \A p \in Pairs : axeInvoked[p] <= 1 /\ axeStored[p] <= 1
        /\ \A c \in 1..MaxCalls : Done(c) =>
              /\ (\A d \in 1..(c - 1) : ~(SameKey(c, d) /\ Done(d)))
                     => calls[c].axeCalls = 1
              /\ \A d \in (c + 1)..MaxCalls : SameKey(c, d) =>
                     /\ calls[d].axeCalls = 0
                     /\ Done(d) => calls[d].ret.axeResults
                                       = calls[c].ret.axeResults

\* C2 amended: with ENABLE_AXE=true the engine's result is stored at most
\* once per key between two clears; a call for a key without a stored
\* result invokes the engine once, a call for a key with a stored result
\* invokes it zero times and returns the stored result.
AxeStoredOncePerKey ==
    AxeOn =>
        /\ \A p \in Pairs :
              /\ axeStored[p] <= 1
              /\ axeStored[p] <= axeInvoked[p]
              /\ axeStored[p] = 1 <=> has(cache, p[1], p[2])
        /\ \A c \in 1..MaxCalls :
              /\ calls[c].pc \in {"axe", "lighthouse", "done", "failed"}
                     => calls[c].axeCalls = IF calls[c].hadAxe THEN 0 ELSE 1
              /\ (Done(c) /\ calls[c].epoch = epoch)
                     => calls[c].ret.axeResults
                            = get(cache, calls[c].url, calls[c].state).axeResults
              /\ \A d \in (c + 1)..MaxCalls : (Done(c) /\ SameKey(c, d)) =>
                     /\ calls[d].axeCalls = 0
                     /\ Done(d) => calls[d].ret.axeResults
                                       = calls[c].ret.axeResults

\* the engine fails in the first call, is invoked again and stores in the
\* second, and the third call for the key reuses the stored result
AxeStoredOncePerKeyWitness ==
    /\ AxeOn
    /\ calls[1].pc = "failed" /\ calls[1].axeCalls = 1
    /\ calls[1].lhCalls = 0
    /\ Done(2) /\ SameKey(1, 2) /\ calls[2].axeCalls = 1
    /\ Done(3) /\ SameKey(2, 3) /\ calls[3].axeCalls = 0
    /\ calls[3].ret.axeResults = calls[2].ret.axeResults
    /\ axeInvoked[<<calls[1].url, calls[1].state>>] = 2

RECURSIVE MetricSum(_, _)
MetricSum(runs, category) ==
    IF runs = <<>> THEN 0
    ELSE runs[1].metrics[category] + MetricSum(Tail(runs), category)

\* C4 as stated: the Lighthouse result runCombinedAudit returns, and the
\* report displays (lighthouseResults.metrics), holds for every category
\* the mean of the category over the accumulated runs of the key.
ReturnsMeanOfRuns ==
    \A c \in 1..MaxCalls :
        (Done(c) /\ Latest(c) /\ LighthouseOn) =>
            LET runs == getLighthouseRuns(lighthouseRuns, calls[c].url,
                                          calls[c].state)
                res == calls[c].ret.lighthouseResults
            IN  \A k \in Categories :
                    /\ k \in DOMAIN res.scores
                    /\ IsMeanRoundedHalfUp(res.scores[k].n,
                                           MetricSum(runs, k), Len(runs))
                    /\ IsMeanRoundedHalfUp(res.metrics[k],
                                           MetricSum(runs, k), Len(runs))

\* C10: when an engine invocation of a call fails, the call fails, returns
\* nothing and leaves testState.testResults as it was when the call began.
FailureLeavesResults ==
    \A c \in 1..MaxCalls :
        /\ calls[c].threw =>
              /\ calls[c].pc = "failed"
              /\ calls[c].ret = Undefined
        /\ (Latest(c) /\ Began(c) /\ ~Done(c))
               => testResults = calls[c].resultsBefore
        /\ (Latest(c) /\ Done(c))
               => testResults = Append(calls[c].resultsBefore, calls[c].ret)

\* the second call fails in its second Lighthouse run, after the first
\* call added a result
FailureLeavesResultsWitness ==
    /\ Done(1) /\ Len(testResults) = 1
    /\ calls[2].pc = "failed" /\ calls[2].threw
    /\ calls[2].lhCalls = 2
    /\ Latest(2)

\* the call has passed the accessibility part of runCombinedAudit
PastAxeSection(c) == calls[c].pc \in {"axe", "lighthouse", "done", "failed"}

\* c is the first call for its key since the last reset before it
FirstForKey(c) == Began(c) /\ \A d \in 1..(c - 1) : ~SameKey(c, d)

\* C14: a step of resetTestResults() leaves testState.getResults() empty
\* and, for every key, has false, get null and getLighthouseRuns empty; the
\* first call for a key after it finds nothing stored and invokes the
\* enabled engines afresh (accessibility once, Lighthouse 3 times).
ResetEmptiesEverything ==
    /\ [][epoch' # epoch =>
             /\ testResults' = <<>>
             /\ \A p \in Pairs :
                    /\ ~has(cache', p[1], p[2])
                    /\ get(cache', p[1], p[2]) = Null
                    /\ getLighthouseRuns(lighthouseRuns', p[1], p[2]) = <<>>]_vars
    /\ [](\A c \in 1..MaxCalls :
             (FirstForKey(c) /\ calls[c].epoch > 0) =>
                 /\ calls[c].runsBefore = 0
                 /\ ~calls[c].hadAxe
                 /\ (AxeOn /\ PastAxeSection(c)) => calls[c].axeCalls = 1
                 /\ (LighthouseOn /\ Done(c)) => calls[c].lhCalls = 3)

\* a call stored the accessibility result and three runs for a key, the
\* results were reset, and the next call for the key invokes the engine
ResetEmptiesEverythingWitness ==
    /\ AxeOn /\ LighthouseOn
    /\ Done(1) /\ calls[1].epoch = 0 /\ calls[1].lhCalls = 3
    /\ epoch = 1 /\ testResults = <<>>
    /\ calls[2].epoch = 1
    /\ calls[2].url = calls[1].url /\ calls[2].state = calls[1].state
    /\ ~calls[2].hadAxe /\ calls[2].runsBefore = 0
    /\ calls[2].pc = "axe" /\ calls[2].axeCalls = 1

RECURSIVE ResultsOfCompleted(_)
\* the values returned by the calls 1..n that completed since the last reset
ResultsOfCompleted(n) ==
    IF n = 0 THEN <<>>
    ELSE IF Done(n) /\ calls[n].epoch = epoch
         THEN Append(ResultsOfCompleted(n - 1), calls[n].ret)
         ELSE ResultsOfCompleted(n - 1)

\* C15: testState.getResults() holds the result of every call that
\* completed since the last reset, once each and in completion order, and
\* nothing else: as many results as completed calls.
EveryCompletedCallCollectedOnce ==
    /\ testResults = ResultsOfCompleted(MaxCalls)
    /\ Len(testResults) =
           Cardinality({c \in 1..MaxCalls : Done(c) /\ calls[c].epoch = epoch})
    /\ \A m \in 1..Len(testResults) : \A n \in 1..Len(testResults) :
           testResults[m] = testResults[n] => m = n

\* the first and the third call completed, the second failed
EveryCompletedCallCollectedOnceWitness ==
    /\ Done(1) /\ calls[2].pc = "failed" /\ Done(3)
    /\ epoch = 0
    /\ testResults = <<calls[1].ret, calls[3].ret>>

\* C16 as stated: no step of runCombinedAudit changes
\* testState.testResults.
AuditLeavesCollection ==
    [][calls' # calls => testResults' = testResults]_vars

\* the call c returns in this step
Returns(c) == calls[c].pc # "done" /\ calls'[c].pc = "done"

\* C16 amended: the step in which runCombinedAudit returns appends the
\* returned result to testState.testResults; every other step of
\* runCombinedAudit leaves the collection as it is.
AuditAppendsItsResult ==
    [][calls' # calls =>
          IF \E c \in 1..MaxCalls : Returns(c)
          THEN \A c \in 1..MaxCalls :
                   Returns(c) =>
                       testResults' = Append(testResults, calls'[c].ret)
          ELSE testResults' = testResults]_vars

\* a call returned after three Lighthouse runs and its result is the one
\* result collected
AuditAppendsItsResultWitness ==
    /\ Done(1) /\ calls[1].lhCalls = 3
    /\ nextCall = 1
    /\ testResults = <<calls[1].ret>>

\* the run count the config asks for, 3 when it asks for none
ConfiguredRuns ==
    IF "requiredRuns" \in DOMAIN config THEN config.requiredRuns ELSE 3

\* C17 as stated: with Lighthouse enabled, a completed call leaves for its
\* key as many accumulated runs as the config asks for, 3 when the config
\* asks for none.
AccumulatesConfiguredRuns ==
    LighthouseOn =>
        \A c \in 1..MaxCalls :
            (Done(c) /\ Latest(c)) =>
                Len(getLighthouseRuns(lighthouseRuns, calls[c].url,
                                      calls[c].state)) = ConfiguredRuns

\* C18 as stated: when a flag is not set in the environment, a completed
\* call has run the audit of the flag and returns a non-null result for it.
UnsetFlagsRunAudits ==
    \A c \in 1..MaxCalls :
        Done(c) =>
            /\ env.ENABLE_AXE = UNSET =>
                   /\ calls[c].ret.axeResults # Null
                   /\ calls[c].hadAxe \/ calls[c].axeCalls = 1
            /\ env.ENABLE_LIGHTHOUSE = UNSET =>
                   /\ calls[c].ret.lighthouseResults # Null
                   /\ calls[c].lhCalls + calls[c].runsBefore >= 3

\* C19 as stated: with the accessibility audit enabled, when the page of a
\* call shows something else than it did in an earlier completed call with
\* the same URL and state label, the call invokes the accessibility engine
\* again instead of returning the stored result.
NeverServedStale ==
    AxeOn =>
        \A c \in 1..MaxCalls : \A d \in (c + 1)..MaxCalls :
            (/\ Done(c) /\ SameKey(c, d)
             /\ calls[c].content # calls[d].content
             /\ PastAxeSection(d)) =>
                /\ calls[d].axeCalls = 1
                /\ Done(d) => calls[d].ret.axeResults.reportPaths
                                  # calls[c].ret.axeResults.reportPaths

\* C20 as stated: two reports generated in different test runs of the
\* process are written under different execution timestamps, the later one
\* under a timestamp taken after the earlier report was generated, and the
\* files of the earlier report still hold the earlier report.
ReportPerRun ==
    \A m \in 1..Len(reports.log) : \A n \in (m + 1)..Len(reports.log) :
        LET first == reports.log[m]
            second == reports.log[n]
        IN  (first.run # second.run /\ ~first.threw /\ ~second.threw) =>
                /\ second.timestamp # first.timestamp
                /\ second.timestamp.s > first.at
                /\ ReportPath(first.timestamp, "html")
                       # ReportPath(second.timestamp, "html")
                /\ ReportPath(first.timestamp, "json")
                       # ReportPath(second.timestamp, "json")

\* the runs accumulated for the key of the call c
RunsOfCall(c) ==
    getLighthouseRuns(lighthouseRuns, calls[c].url, calls[c].state)

\* C22: a call has at most one engine invocation in flight; when a
\* Lighthouse invocation is in flight, the accessibility invocation of the
\* call (if any) has returned and every earlier Lighthouse invocation of the
\* call has returned and its run has been appended to the key's list.
OneEngineAtATime ==
    \A c \in 1..MaxCalls :
        /\ calls[c].pc = "axe" =>
               calls[c].axeCalls = 1 /\ calls[c].lhCalls = 0
        /\ calls[c].pc = "lighthouse" =>
               /\ calls[c].lhCalls - calls[c].i = 1
               /\ AxeOn => calls[c].axeResults # Null
               /\ Latest(c) =>
                      Len(RunsOfCall(c))
                          = calls[c].runsBefore + calls[c].lhCalls - 1
        /\ (Done(c) /\ LighthouseOn) => calls[c].lhCalls = calls[c].i
        /\ (Done(c) /\ LighthouseOn /\ Latest(c)) =>
               Len(RunsOfCall(c)) = calls[c].runsBefore + calls[c].lhCalls

\* the third Lighthouse invocation of a call is in flight: the
\* accessibility result is stored and two runs are in the list
OneEngineAtATimeWitness ==
    /\ AxeOn
    /\ calls[1].pc = "lighthouse"
    /\ calls[1].axeCalls = 1 /\ calls[1].lhCalls = 3 /\ calls[1].i = 2
    /\ has(cache, calls[1].url, calls[1].state)
    /\ Len(RunsOfCall(1)) = 2

\* C23: the run list of a key never holds more than 3 runs, and when a
\* call with Lighthouse enabled has completed, the list of its key holds
\* exactly 3 runs.
RunListAtMostThree ==
    /\ \A p \in Pairs :
           Len(getLighthouseRuns(lighthouseRuns, p[1], p[2]))
               <= REQUIRED_LIGHTHOUSE_RUNS
    /\ \A key \in DOMAIN lighthouseRuns :
           Len(lighthouseRuns[key]) <= REQUIRED_LIGHTHOUSE_RUNS
    /\ \A c \in 1..MaxCalls :
           (Done(c) /\ LighthouseOn /\ Latest(c)) =>
               Len(RunsOfCall(c)) = REQUIRED_LIGHTHOUSE_RUNS

\* a call failed in its third Lighthouse run, the next call for the key
\* added the one missing run
RunListAtMostThreeWitness ==
    /\ calls[1].pc = "failed" /\ calls[1].lhCalls = 3
    /\ Done(2) /\ SameKey(1, 2) /\ calls[2].lhCalls = 1
    /\ Latest(2)
    /\ Len(RunsOfCall(2)) = 3

\* C25: with both flags enabled, the step in which the accessibility
\* engine fails ends the call with no Lighthouse invocation and changes
\* neither map; the failed call does nothing afterwards, and the entry and
\* the run list of its key are as they were when the call began.
AxeFailureAbortsCall ==
    /\ [][\A c \in 1..MaxCalls :
             (AxeOn /\ LighthouseOn /\ calls[c].pc = "axe"
              /\ calls'[c].threw) =>
                 /\ calls'[c].pc = "failed"
                 /\ calls'[c].lhCalls = 0
                 /\ cache' = cache
                 /\ lighthouseRuns' = lighthouseRuns]_vars
    /\ [][\A c \in 1..MaxCalls :
             calls[c].pc = "failed" => calls'[c] = calls[c]]_vars
    /\ [](\A c \in 1..MaxCalls :
             (AxeOn /\ LighthouseOn /\ Latest(c) /\ calls[c].pc = "failed"
              /\ calls[c].lhCalls = 0) =>
                 /\ has(cache, calls[c].url, calls[c].state) = calls[c].hadAxe
                 /\ Len(RunsOfCall(c)) = calls[c].runsBefore)

\* after a completed call for one key, the accessibility engine fails in
\* a call for another key
AxeFailureAbortsCallWitness ==
    /\ AxeOn /\ LighthouseOn
    /\ Done(1) /\ calls[1].lhCalls = 3
    /\ calls[2].pc = "failed" /\ calls[2].axeCalls = 1
    /\ calls[2].lhCalls = 0
    /\ ~has(cache, calls[2].url, calls[2].state)
    /\ RunsOfCall(2) = <<>>
    /\ Len(testResults) = 1

FailedInLighthouse(c) == calls[c].pc = "failed" /\ calls[c].lhCalls >= 1

\* d is the next call after c for the key of c
NextForKey(c, d) ==
    /\ c < d /\ SameKey(c, d)
    /\ \A e \in (c + 1)..(d - 1) : ~SameKey(c, e)

\* C27: when the i-th Lighthouse invocation of a call fails, the i-1 runs
\* the call appended and the accessibility result it stored or reused stay
\* in the cache; the next call for the key begins with them, invokes the
\* accessibility engine not at all and, when it completes, has invoked
\* Lighthouse only for the runs still missing.
PartialProgressSurvives ==
    \A c \in 1..MaxCalls :
        FailedInLighthouse(c) =>
            /\ Latest(c) =>
                   /\ Len(RunsOfCall(c))
                          = calls[c].runsBefore + calls[c].lhCalls - 1
                   /\ AxeOn =>
                          /\ has(cache, calls[c].url, calls[c].state)
                          /\ get(cache, calls[c].url, calls[c].state).axeResults
                                 = calls[c].axeResults
            /\ \A d \in 1..MaxCalls :
                   NextForKey(c, d) =>
                       /\ calls[d].runsBefore
                              = calls[c].runsBefore + calls[c].lhCalls - 1
                       /\ AxeOn => calls[d].hadAxe /\ calls[d].axeCalls = 0
                       /\ Done(d) =>
                              /\ calls[d].lhCalls
                                     = REQUIRED_LIGHTHOUSE_RUNS
                                           - calls[d].runsBefore
                              /\ AxeOn => calls[d].ret.axeResults
                                              = calls[c].axeResults

\* with both engines enabled the second Lighthouse invocation of a call
\* fails; the next call for the key adds the two missing runs
PartialProgressSurvivesWitness ==
    /\ AxeOn /\ LighthouseOn
    /\ calls[1].pc = "failed" /\ calls[1].axeCalls = 1
    /\ calls[1].lhCalls = 2
    /\ Done(2) /\ SameKey(1, 2)
    /\ calls[2].axeCalls = 0 /\ calls[2].lhCalls = 2
    /\ Len(RunsOfCall(2)) = 3

NoCallFailed == \A c \in 1..MaxCalls : ~calls[c].threw

\* the calls begun for the pair p since the last reset
CallsFor(p) ==
    {c \in 1..MaxCalls :
        /\ Began(c) /\ calls[c].epoch = epoch
        /\ <<calls[c].url, calls[c].state>> = p}

RECURSIVE SumOver(_, _)
\* the sum of f[c] over the calls c in S
SumOver(f, S) ==
    IF S = {} THEN 0
    ELSE LET c == CHOOSE x \in S : TRUE
         IN  f[c] + SumOver(f, S \ {c})

\* C28 as stated: when calls for one key overlap and no engine fails, the
\* accessibility engine is invoked at most once for the key and the run
\* list of the key never exceeds 3 runs.
GuaranteesUnderInterleaving ==
    NoCallFailed =>
        \A p \in Pairs :
            /\ axeInvoked[p] <= 1
            /\ Len(getLighthouseRuns(lighthouseRuns, p[1], p[2]))
                   <= REQUIRED_LIGHTHOUSE_RUNS

\* C28 amended: when calls for one key overlap, each call invokes the
\* accessibility engine at most once, and not at all when the result was
\* stored before it began; each call makes at most 3 Lighthouse
\* invocations less the runs the key held when it began; the key's list
\* holds the runs of all the calls, so n overlapping calls can invoke the
\* accessibility engine n times and leave 3n runs.
PerCallBoundsUnderInterleaving ==
    /\ \A c \in 1..MaxCalls :
           /\ calls[c].axeCalls <= (IF calls[c].hadAxe THEN 0 ELSE 1)
           /\ calls[c].lhCalls
                  <= Max(0, REQUIRED_LIGHTHOUSE_RUNS - calls[c].runsBefore)
    /\ \A p \in Pairs :
           LET n == Cardinality(CallsFor(p))
           IN  /\ axeInvoked[p] = SumOver([c \in 1..MaxCalls |->
                                              calls[c].axeCalls], CallsFor(p))
               /\ axeInvoked[p] <= n
               /\ Len(getLighthouseRuns(lighthouseRuns, p[1], p[2]))
                      = SumOver([c \in 1..MaxCalls |-> calls[c].i],
                                CallsFor(p))
               /\ Len(getLighthouseRuns(lighthouseRuns, p[1], p[2]))
                      <= REQUIRED_LIGHTHOUSE_RUNS * n

\* two calls for one key overlap: the second began before the first had
\* added a run, the first completed with three runs and the second has
\* added a fourth
PerCallBoundsUnderInterleavingWitness ==
    /\ NoCallFailed
    /\ Done(1) /\ calls[1].lhCalls = 3
    /\ SameKey(1, 2) /\ calls[2].runsBefore = 0
    /\ calls[2].pc = "lighthouse" /\ calls[2].i = 1
    /\ Len(RunsOfCall(2)) = 4

\* C30 as stated: every generateConsolidatedReport completes without raising
\* an error and leaves both report files written, whatever the two feature
\* flags are and whatever the collection holds (results with null
\* axeResults or null lighthouseResults, or no result at all).
ReportAlwaysWritten ==
    \A n \in 1..Len(reports.log) :
        /\ ~reports.log[n].threw
        /\ reports.files # <<>>
        /\ ReportPath(reports.log[n].timestamp, "html") \in DOMAIN reports.files
        /\ ReportPath(reports.log[n].timestamp, "json") \in DOMAIN reports.files

====
